---------------------------- MODULE Spec2Model ----------------------------
(***************************************************************************)
(* ArduinoCLI: a line-oriented command dispatcher on a serial Stream.      *)
(*                                                                         *)
(* The object's fields are the variables; every public call (start, stop,  *)
(* poll, processInput, the setters, printHelp) is one action that runs the *)
(* call to completion, handlers included.  A poll reads the bytes that     *)
(* wait in the Stream and those the Stream receives while the call runs.   *)
(* C strings are sequences of byte values without the terminating NUL;     *)
(* arrays are sequences, cell i of the C array being element i+1.          *)
(***************************************************************************)
EXTENDS Integers, Sequences, FiniteSets, TLC

VARIABLES
    _commands,    \* the command table handed to the constructor
    _isRunning,   \* bool _isRunning
    _lineBuffer,  \* char* _lineBuffer: NULLPTR, or the malloc'ed cells
    _maxLineLen,  \* size_t _maxLineLen
    _bufferPos,   \* size_t _bufferPos
    _argv,        \* char** _argv: NULLPTR, or the malloc'ed cells
    _maxArgs,     \* size_t _maxArgs
    _prompt,      \* char _prompt[CLI_MAX_PROMPT_LEN], as a C string
    rx,           \* bytes waiting in the Stream (available/peek/read)
    trace,        \* what the last call did: reads, writes, handler calls
    overrun,      \* a write went past the end of a malloc'ed block
    lastOp,       \* the last public call made on the object
    lastEnding,   \* history: CR or LF when the byte read last was that line
                  \* ending and its other half was not read with it, else NUL
    endedLine,    \* history: that line ending handed a line to processInput
    pairSplit,    \* history: "no", or that the last poll began by reading
                  \* the other half of the line ending the poll before it
                  \* had stopped on: "line" if that ending had handed a
                  \* line to processInput, else "empty"
    arg,          \* input of the function under test (function specs)
    ret           \* its result

vars == << _commands, _isRunning, _lineBuffer, _maxLineLen, _bufferPos,
           _argv, _maxArgs, _prompt, rx, trace, overrun, lastOp, lastEnding,
           endedLine, pairSplit, arg, ret >>

---------------------------------------------------------------------------
(* Program constants *)

CLI_DEFAULT_MAX_LINE_LEN == 64
CLI_DEFAULT_MAX_ARGS == 8
\* "> "
CLI_DEFAULT_PROMPT == << 62, 32 >>
CLI_MAX_PROMPT_LEN == 18

NUL == 0
ETX == 3
BEL == 7
BS == 8
TAB == 9
LF == 10
VT == 11
FF == 12
CR == 13
SPACE == 32
DEL == 127
TILDE == 126
ChA == 97
ChB == 98

\* size_t arithmetic is modulo 2^16 on the AVR targets of the library
SizeBits == 16
SizeMod == 2 ^ SizeBits
SizeSub(a, b) == (a - b) % SizeMod
SizeAdd(a, b) == (a + b) % SizeMod

\* A null pointer (as a buffer, and as the argv sentinel): no cells at all.
NULLPTR == << >>
\* A cell whose content the program has not written (malloc leaves it
\* indeterminate) or no longer relies upon.
Stale == -1
\* A null const char* handed in by the host (a name, a help text, a
\* prompt): not a C string, and not the empty string "".
NULLSTR == << -1 >>

---------------------------------------------------------------------------
(* <ctype.h> and <string.h> *)

isprint(c) == c >= SPACE /\ c <= TILDE
isspace(c) == c \in {SPACE, TAB, LF, VT, FF, CR}

\* strncmp(prefix, name, strlen(prefix)) == 0
StartsWith(name, prefix) ==
    /\ Len(name) >= Len(prefix)
    /\ SubSeq(name, 1, Len(prefix)) = prefix

\* strcmp(a, b) == 0
StrEq(a, b) == a = b

\* strchr(s, c) != NULL
StrChr(s, c) == \E i \in 1..Len(s) : s[i] = c

\* The C string that starts at cell `from` of an array: the cells up to the
\* first NUL (or to the end of the array when none is there).
CStrFrom(cells, from) ==
    LET nuls == {i \in (from + 1)..Len(cells) : cells[i] = NUL}
        end == IF nuls = {} THEN Len(cells)
               ELSE (CHOOSE i \in nuls : \A j \in nuls : i <= j) - 1
    IN  SubSeq(cells, from + 1, end)

\* n copies of byte c
Rep(c, n) == [i \in 1..n |-> c]

---------------------------------------------------------------------------
(* The tokenizer *)

\* the delimiter string " \t\r\n\a" of both strtok_r calls
Delims == {SPACE, TAB, CR, LF, BEL}

\* the first position from i on that holds no delimiter (strspn), or
\* Len(line) + 1
SkipDelims(line, i) ==
    LET rest == {j \in i..Len(line) : line[j] \notin Delims}
    IN  IF rest = {} THEN Len(line) + 1
        ELSE CHOOSE j \in rest : \A k \in rest : j <= k

\* the first position from i on that holds a delimiter (strpbrk), or
\* Len(line) + 1
TokenEnd(line, i) ==
    LET rest == {j \in i..Len(line) : line[j] \in Delims}
    IN  IF rest = {} THEN Len(line) + 1
        ELSE CHOOSE j \in rest : \A k \in rest : j <= k

\* variant: the token starts where the scan starts, delimiter or not
strtokNoSkip(line, save) ==
    LET e == TokenEnd(line, save)
    IN  IF save > Len(line)
        THEN [token |-> NULLPTR, save |-> save]
        ELSE [token |-> SubSeq(line, save, e - 1),
              save  |-> IF e > Len(line) THEN e ELSE e + 1]

\* strtok_r resumed at position save (1-based) of line: the next token and
\* the new save position, token = NULLPTR when only delimiters are left.
strtok_r(line, save) ==
    LET b == SkipDelims(line, save)
        e == TokenEnd(line, b)
    IN  IF b > Len(line)
        THEN [token |-> NULLPTR, save |-> b]
        ELSE [token |-> SubSeq(line, b, e - 1),
              save  |-> IF e > Len(line) THEN e ELSE e + 1]

\* the loop condition of _splitLine
SplitMore(token, argc, max_args_local) ==
    token # NULLPTR /\ argc < SizeSub(max_args_local, 1)

RECURSIVE SplitLoop(_, _, _, _)
SplitLoop(line, tk, argv_local, max_args_local) ==
    IF SplitMore(tk.token, Len(argv_local), max_args_local)
    THEN SplitLoop(line, strtok_r(line, tk.save),
                   Append(argv_local, tk.token), max_args_local)
    ELSE argv_local

\* int _splitLine(line, argv_local, max_args_local): the token count and the
\* vector written, argv[argc] being the NULL sentinel.
_splitLine(line, max_args_local) ==
    LET toks == SplitLoop(line, strtok_r(line, 1), << >>, max_args_local)
    IN  [argc |-> Len(toks), argv |-> Append(toks, NULLPTR)]

---------------------------------------------------------------------------
(* The command resolver *)

\* a table entry whose name pointer is NULL
NoName == NULLSTR

\* the scan of _findCommand from entry i on
RECURSIVE FindScan(_, _, _, _, _, _)
FindScan(cmds, prefix, i, found_cmd, exact_match, match_count) ==
    IF i > Len(cmds)
    THEN [found_cmd |-> found_cmd, exact_match |-> exact_match,
          match_count |-> match_count]
    ELSE IF cmds[i].name = NoName
    THEN FindScan(cmds, prefix, i + 1, found_cmd, exact_match, match_count)
    ELSE LET ex == IF StrEq(prefix, cmds[i].name) THEN i ELSE exact_match
             pm == StartsWith(cmds[i].name, prefix)
         IN  FindScan(cmds, prefix, i + 1,
                      IF pm /\ found_cmd = 0 THEN i ELSE found_cmd,
                      ex,
                      IF pm THEN match_count + 1 ELSE match_count)

\* variant: the prefix count decides, an exact match has no say
FindResultByCountOnly(r) ==
    IF r.match_count = 1 THEN r.found_cmd ELSE 0

\* variant: without an exact match the first prefix match is returned,
\* however many there are
FindResultFirstMatch(r) ==
    IF r.exact_match # 0 THEN r.exact_match ELSE r.found_cmd

\* what _findCommand returns from the scan's result
FindResult(r) ==
    IF r.exact_match # 0 THEN r.exact_match
    ELSE IF r.match_count = 1 THEN r.found_cmd
    ELSE 0

\* const CLI_Command_t* _findCommand(prefix): the index of the entry
\* (1-based), 0 for NULL.
_findCommand(cmds, prefix) ==
    IF Len(prefix) = 0 THEN 0
    ELSE FindResult(FindScan(cmds, prefix, 1, 0, 0, 0))

\* the second scan of _parseAndExecute, for the wording of the error
PrefixMatchCount(cmds, prefix) ==
    Cardinality({i \in 1..Len(cmds) :
                    cmds[i].name # NoName /\ StartsWith(cmds[i].name, prefix)})

---------------------------------------------------------------------------
(* What a call does to the outside: the items of `trace`, in order *)

Rd(c) == << "read", c >>                 \* _serial.read() returned c
Lit(t) == << "lit", t >>                 \* print of a string literal
Str(b) == << "str", b >>                 \* print/write of a C string
Chr(c) == << "chr", c >>                 \* write/print of one char
Num(n) == << "int", n >>                 \* print of an int
Call(i, argc, argv) == << "call", i, argc, argv >>  \* cmd->func(this, ...)
Line(l) == << "line", l >>               \* poll handed l to processInput
StopReq == << "stop" >>                  \* stop() called by a handler

CRLF == "\r\n"

Emit(s, items) == [s EXCEPT !.trace = @ \o items]

\* the 3-byte erase sequence "\b \b"
EraseSeq == << BS, SPACE, BS >>

\* strncpy(_prompt, prompt, CLI_MAX_PROMPT_LEN - 1) and the NUL stored in
\* the last cell: the C string _prompt holds afterwards
CopyPrompt(prompt) ==
    SubSeq(prompt, 1, IF Len(prompt) < CLI_MAX_PROMPT_LEN - 1 THEN Len(prompt)
                      ELSE CLI_MAX_PROMPT_LEN - 1)

---------------------------------------------------------------------------
(* The running call: the fields a call can change, and the Stream *)

\* s.isRunning, s.lineBuffer, s.bufferPos, s.rx, s.trace, s.overrun,
\* s.lastEnding, s.endedLine; s.late are the bytes the Stream receives
\* while the call runs, none yet
Running(run, buf, pos, in, ovr, le, el) ==
    [isRunning |-> run, lineBuffer |-> buf, bufferPos |-> pos,
     rx |-> in, late |-> << >>, trace |-> << >>, overrun |-> ovr,
     lastEnding |-> le, endedLine |-> el]

\* _lineBuffer[i] = v; past the end of the block it corrupts the heap
WriteCell(s, i, v) ==
    IF i < Len(s.lineBuffer)
    THEN [s EXCEPT !.lineBuffer[i + 1] = v]
    ELSE [s EXCEPT !.overrun = TRUE]

\* strncpy(_lineBuffer + at, bytes, Len(bytes))
WriteCells(s, at, bytes) ==
    [s EXCEPT !.lineBuffer =
                  [i \in 1..Len(@) |->
                      IF i > at /\ i <= at + Len(bytes) THEN bytes[i - at]
                      ELSE @[i]],
              !.overrun = @ \/ at + Len(bytes) > Len(s.lineBuffer)]

_resetBuffer(s) ==
    LET s1 == IF s.lineBuffer # NULLPTR THEN WriteCell(s, 0, NUL) ELSE s
    IN  [s1 EXCEPT !.bufferPos = 0]

_printPrompt(s) == Emit(s, << Lit(CRLF), Str(_prompt) >>)

_printChar(s, c) == Emit(s, << Chr(c) >>)

---------------------------------------------------------------------------
(* The dispatcher of a completed line *)

\* cmd->func values: no handler, a handler that returns, a handler that
\* calls cli->stop() (an 'exit' command)
NULLFUNC == "null"
Handlers == {"noop", "stop"}

\* void stop()
stop(s) == [s EXCEPT !.isRunning = FALSE]

\* cmd->func(this, argc, _argv)
InvokeHandler(s, cmd, argc, argv) ==
    LET s1 == Emit(s, << Call(cmd, argc, argv) >>)
    IN  IF _commands[cmd].func = "stop"
        THEN Emit(stop(s1), << StopReq >>)
        ELSE s1

\* while (isspace(*line)) line++
SkipSpace(line) ==
    LET rest == {j \in 1..Len(line) : ~isspace(line[j])}
    IN  IF rest = {} THEN << >>
        ELSE SubSeq(line, CHOOSE j \in rest : \A k \in rest : j <= k,
                    Len(line))

\* the cmd == NULL branch
ReportNoCommand(s, token) ==
    IF PrefixMatchCount(_commands, token) > 1
    THEN Emit(s, << Lit(CRLF), Lit("Error: Ambiguous command '"), Str(token),
                    Lit("'."), Lit(CRLF) >>)
    ELSE Emit(s, << Lit(CRLF), Lit("Error: Unknown command '"), Str(token),
                    Lit("'. Type 'help' for list."), Lit(CRLF) >>)

\* if (user_args > cmd->max_args)
TooManyArgs(user_args, max_args) == user_args > max_args

ReportTooMany(s, cmd, user_args) ==
    Emit(s, << Lit(CRLF), Lit("Error: Too many arguments for '"),
               Str(_commands[cmd].name), Lit("' (max: "),
               Num(_commands[cmd].max_args), Lit(", got: "), Num(user_args),
               Lit(")."), Lit(CRLF) >>)

\* variant: the handler is called right behind the echoed line
ExecuteNoBlankLine(s, cmd, sp) ==
    LET user_args == sp.argc - 1
    IN  IF TooManyArgs(user_args, _commands[cmd].max_args)
        THEN ReportTooMany(s, cmd, user_args)
        ELSE IF _commands[cmd].func # NULLFUNC
        THEN InvokeHandler(s, cmd, sp.argc, sp.argv)
        ELSE s

\* the part of _parseAndExecute after a command was found
Execute(s, cmd, sp) ==
    LET user_args == sp.argc - 1
    IN  IF TooManyArgs(user_args, _commands[cmd].max_args)
        THEN ReportTooMany(s, cmd, user_args)
        ELSE IF _commands[cmd].func # NULLFUNC
        THEN InvokeHandler(Emit(s, << Lit(CRLF) >>), cmd, sp.argc, sp.argv)
        ELSE s

\* void _parseAndExecute(char *line).  _splitLine stores argc+1 pointers in
\* the _argv block.  The NULs strtok_r writes into the line land below its
\* terminator.
_parseAndExecute(s, line) ==
    IF s.lineBuffer = NULLPTR \/ _argv = NULLPTR THEN s
    ELSE LET l1 == SkipSpace(line)
         IN  IF l1 = << >> THEN s
             ELSE LET sp == _splitLine(l1, _maxArgs)
                      s1 == [s EXCEPT !.overrun = @ \/ sp.argc >= Len(_argv)]
                  IN  IF sp.argc = 0 THEN s1
                      ELSE LET cmd == _findCommand(_commands, sp.argv[1])
                           IN  IF cmd = 0
                               THEN ReportNoCommand(s1, sp.argv[1])
                               ELSE Execute(s1, cmd, sp)

\* variant: processInput does not look at _isRunning
processInputWhenStopped(s, line) ==
    IF s.lineBuffer = NULLPTR \/ _argv = NULLPTR THEN s
    ELSE _parseAndExecute(s, line)

\* void processInput(char* line)
processInput(s, line) ==
    IF ~s.isRunning \/ s.lineBuffer = NULLPTR \/ _argv = NULLPTR THEN s
    ELSE _parseAndExecute(s, line)

---------------------------------------------------------------------------
(* Tab completion *)

\* the loop of _findLcp, count > 1
RECURSIVE LcpFrom(_, _)
LcpFrom(matches, lcp_len) ==
    IF lcp_len >= Len(matches[1]) THEN lcp_len
    ELSE IF \A i \in 2..Len(matches) :
                /\ lcp_len < Len(matches[i])
                /\ matches[i][lcp_len + 1] = matches[1][lcp_len + 1]
    THEN LcpFrom(matches, lcp_len + 1)
    ELSE lcp_len

\* variant: the last common byte is not counted
_findLcpShort(matches) ==
    IF Len(matches) <= 0 THEN 0
    ELSE IF Len(matches) = 1 THEN Len(matches[1])
    ELSE IF LcpFrom(matches, 0) > 1 THEN LcpFrom(matches, 0) - 1
    ELSE LcpFrom(matches, 0)

\* int _findLcp(matches, count)
_findLcp(matches) ==
    IF Len(matches) <= 0 THEN 0
    ELSE IF Len(matches) = 1 THEN Len(matches[1])
    ELSE LcpFrom(matches, 0)

\* variant: the word behind the last space of the line is the one completed
CurrentWordLast(s) ==
    LET n == IF s.bufferPos < Len(s.lineBuffer) THEN s.bufferPos
             ELSE Len(s.lineBuffer)
        w == CStrFrom(SubSeq(s.lineBuffer, 1, n), 0)
        spaces == {i \in 1..Len(w) : w[i] = SPACE}
    IN  IF spaces = {} THEN w
        ELSE SubSeq(w, (CHOOSE i \in spaces : \A j \in spaces : j <= i) + 1,
                    Len(w))

\* char current_word[CLI_DEFAULT_MAX_LINE_LEN]: the first _bufferPos cells
\* of the line, as a C string
CurrentWord(s) ==
    LET n == IF s.bufferPos < Len(s.lineBuffer) THEN s.bufferPos
             ELSE Len(s.lineBuffer)
    IN  CStrFrom(SubSeq(s.lineBuffer, 1, n), 0)

\* variant: the scan stops at the first name that starts with the word
TabMatchesFirstOnly(cmds, current_word) ==
    LET names == [i \in 1..Len(cmds) |-> cmds[i].name]
        all == SelectSeq(names,
                         LAMBDA n : n # NoName /\ StartsWith(n, current_word))
    IN  IF all = << >> THEN << >> ELSE << all[1] >>

\* the names collected in matches[], in table order
TabMatches(cmds, current_word) ==
    LET names == [i \in 1..Len(cmds) |-> cmds[i].name]
    IN  SelectSeq(names, LAMBDA n : n # NoName /\ StartsWith(n, current_word))

\* if (_bufferPos + remaining_len < _maxLineLen - 2)
SingleFits(pos, remaining_len) ==
    SizeAdd(pos, remaining_len) < SizeSub(_maxLineLen, 2)

\* if (_bufferPos + remaining_len < _maxLineLen - 1)
LcpFits(pos, remaining_len) ==
    SizeAdd(pos, remaining_len) < SizeSub(_maxLineLen, 1)

\* match_count == 1
TabSingle(s, completion, current_len) ==
    LET remaining_len == SizeSub(Len(completion), current_len)
        suffix == SubSeq(completion, current_len + 1, Len(completion))
    IN  IF SingleFits(s.bufferPos, remaining_len)
        THEN LET s1 == WriteCells(s, s.bufferPos, suffix)
                 s2 == WriteCell(s1, s.bufferPos + remaining_len, SPACE)
                 s3 == WriteCell(s2, s.bufferPos + remaining_len + 1, NUL)
                 s4 == Emit(s3, << Str(suffix), Chr(SPACE) >>)
             IN  [s4 EXCEPT !.bufferPos = SizeAdd(@, remaining_len + 1)]
        ELSE Emit(s, << Chr(BEL) >>)

\* variant: the listing stops after the first match
ListFirstOnly(matches) == << Str(Head(matches)), Lit("  ") >>

\* the items of the option listing
RECURSIVE ListItems(_)
ListItems(matches) ==
    IF matches = << >> THEN << >>
    ELSE << Str(Head(matches)), Lit("  ") >> \o ListItems(Tail(matches))

\* match_count > 1
TabMulti(s, matches, current_len) ==
    LET lcp_len == _findLcp(matches)
    IN  IF lcp_len > current_len
        THEN LET remaining_len == SizeSub(lcp_len, current_len)
                 rest == SubSeq(matches[1], current_len + 1, Len(matches[1]))
             IN  IF LcpFits(s.bufferPos, remaining_len)
                 THEN LET s1 == WriteCells(s, s.bufferPos,
                                           SubSeq(rest, 1, remaining_len))
                          s2 == WriteCell(s1, s.bufferPos + remaining_len, NUL)
                          s3 == Emit(s2, << Str(rest) >>)
                      IN  [s3 EXCEPT !.bufferPos = SizeAdd(@, remaining_len)]
                 ELSE Emit(s, << Chr(BEL) >>)
        ELSE LET s1 == Emit(s, << Lit(CRLF) >> \o ListItems(matches))
                 s2 == _printPrompt(s1)
             IN  Emit(s2, << Str(CStrFrom(s.lineBuffer, 0)) >>)

\* void _handleTab().  current_word has CLI_DEFAULT_MAX_LINE_LEN cells on
\* the stack; its terminator is stored at index _bufferPos.
_handleTab(s) ==
    IF s.lineBuffer = NULLPTR THEN s
    ELSE LET current_word == CurrentWord(s)
             s0 == [s EXCEPT !.overrun =
                        @ \/ s.bufferPos >= CLI_DEFAULT_MAX_LINE_LEN]
         IN  IF StrChr(current_word, SPACE) THEN Emit(s0, << Chr(BEL) >>)
             ELSE IF Len(current_word) = 0 THEN s0
             ELSE LET matches == TabMatches(_commands, current_word)
                  IN  IF Len(matches) = 0 THEN Emit(s0, << Chr(BEL) >>)
                      ELSE IF Len(matches) = 1
                      THEN TabSingle(s0, matches[1], Len(current_word))
                      ELSE TabMulti(s0, matches, Len(current_word))

---------------------------------------------------------------------------
(* poll *)

\* variant: poll does not look at _isRunning
PollRunsWhenStopped(s) == s.lineBuffer # NULLPTR

\* if (!_isRunning || !_lineBuffer) return;
PollRuns(s) == s.isRunning /\ s.lineBuffer # NULLPTR

\* c == '\r' || c == '\n'
IsLineEnding(c) == c = CR \/ c = LF

\* (c == '\r' && next_c == '\n') || (c == '\n' && next_c == '\r')
IsPairedEnding(c, next_c) ==
    \/ c = CR /\ next_c = LF
    \/ c = LF /\ next_c = CR

\* _serial.read()
ReadByte(s) ==
    [s EXCEPT !.rx = Tail(@), !.trace = Append(@, Rd(Head(s.rx))),
              !.lastEnding = NUL, !.endedLine = FALSE]

\* if (_serial.available() > 0) { peek; read the other half of the pair }
SkipPaired(s, c) ==
    IF Len(s.rx) > 0 /\ IsPairedEnding(c, Head(s.rx)) THEN ReadByte(s) ELSE s

\* variant: an empty line is handed to processInput too
LineAlwaysHasContent(pos) == pos >= 0

\* if (_bufferPos > 0)
LineHasContent(pos) == pos > 0

\* the CR / LF branch
LineEnding(s, c) ==
    LET s1 == IF LineHasContent(s.bufferPos)
              THEN LET t == WriteCell(s, s.bufferPos, NUL)
                       l == CStrFrom(t.lineBuffer, 0)
                   IN  processInput(Emit(t, << Line(l) >>), l)
              ELSE s
        s2 == _resetBuffer(s1)
        s3 == IF s2.isRunning THEN _printPrompt(s2) ELSE s2
    IN  SkipPaired([s3 EXCEPT !.lastEnding = c,
                              !.endedLine = LineHasContent(s.bufferPos)], c)

\* variant: the first byte of the line cannot be erased
BackspaceFromSecond(s) ==
    IF s.bufferPos > 1
    THEN Emit(WriteCell([s EXCEPT !.bufferPos = @ - 1], s.bufferPos - 1, NUL),
              << Str(EraseSeq) >>)
    ELSE s

\* the DEL / backspace branch
Backspace(s) ==
    IF s.bufferPos > 0
    THEN Emit(WriteCell([s EXCEPT !.bufferPos = @ - 1], s.bufferPos - 1, NUL),
              << Str(EraseSeq) >>)
    ELSE s

\* variant: the marker and the prompt are printed, the line is kept
CancelKeepsLine(s) == _printPrompt(Emit(s, << Lit("^C"), Lit(CRLF) >>))

\* the Ctrl+C branch
Cancel(s) == _printPrompt(Emit(_resetBuffer(s), << Lit("^C"), Lit(CRLF) >>))

\* variant: the last free cell before the terminator is never used
PrintableFitsEarly(pos) == pos < SizeSub(_maxLineLen, 2)

\* variant: the room check forgets the terminator's cell
PrintableFitsNoTerminator(pos) == pos < _maxLineLen

\* if (_bufferPos < _maxLineLen - 1)
PrintableFits(pos) == pos < SizeSub(_maxLineLen, 1)

\* the isprint branch
Printable(s, c) ==
    IF PrintableFits(s.bufferPos)
    THEN LET s1 == WriteCell(s, s.bufferPos, c)
             s2 == WriteCell(s1, s.bufferPos + 1, NUL)
         IN  _printChar([s2 EXCEPT !.bufferPos = @ + 1], c)
    ELSE Emit(s, << Chr(BEL) >>)

\* one turn of the while loop: read c and act on it
PollByte(s) ==
    LET c == Head(s.rx)
        s1 == ReadByte(s)
    IN  IF IsLineEnding(c) THEN LineEnding(s1, c)
        ELSE IF c = TAB THEN _handleTab(s1)
        ELSE IF c = DEL \/ c = BS THEN Backspace(s1)
        ELSE IF c = ETX THEN Cancel(s1)
        ELSE IF isprint(c) THEN Printable(s1, c)
        ELSE s1

\* the receive interrupt stores the next byte of s.late in the Stream
Receive(s) == [s EXCEPT !.rx = Append(@, Head(s.late)), !.late = Tail(@)]

\* while (_serial.available() > 0).  A byte of s.late is received after the
\* turn of the loop for the byte before it, its available() and peek()
\* included, and before the loop asks available() again.
RECURSIVE PollLoop(_)
PollLoop(s) ==
    IF Len(s.rx) > 0 THEN PollLoop(PollByte(s))
    ELSE IF Len(s.late) > 0 THEN PollLoop(PollByte(Receive(s)))
    ELSE s

\* void poll()
poll(s) == IF PollRuns(s) THEN PollLoop(s) ELSE s

\* void start()
start(s) == _printPrompt([s EXCEPT !.isRunning = TRUE])

---------------------------------------------------------------------------
(* Configuration and help *)

\* void setMaxLineLen(size_t len): the new value of _maxLineLen
setMaxLineLen(len) == IF len > 0 THEN len ELSE _maxLineLen

\* void setMaxArgs(size_t num): the new value of _maxArgs
setMaxArgs(num) == IF num > 0 THEN SizeAdd(num, 1) ELSE _maxArgs

\* void setPrompt(const char* prompt): the new value of _prompt
setPrompt(prompt) == IF prompt # NULLSTR THEN CopyPrompt(prompt) ELSE _prompt

\* the column the help texts start in, behind the two leading spaces
HelpColumn == 15

\* the line printHelp prints for one entry
HelpLine(cmd) ==
    LET nameLen == Len(cmd.name)
        padding == IF HelpColumn - nameLen < 1 THEN 1 ELSE HelpColumn - nameLen
    IN  << Lit("  "), Str(cmd.name) >>
        \o [pad \in 1..padding |-> Chr(SPACE)]
        \o << Lit("- "),
              Str(IF cmd.help_text # NULLSTR THEN cmd.help_text ELSE << >>),
              Lit(" (max args: "), Num(cmd.max_args), Lit(")"), Lit(CRLF) >>

RECURSIVE HelpLines(_, _)
HelpLines(cmds, i) ==
    IF i > Len(cmds) THEN << >>
    ELSE IF cmds[i].name = NoName THEN HelpLines(cmds, i + 1)
    ELSE HelpLine(cmds[i]) \o HelpLines(cmds, i + 1)

\* void printHelp()
printHelp(s) ==
    Emit(s, << Lit("Available commands:"), Lit(CRLF) >>
            \o HelpLines(_commands, 1))

---------------------------------------------------------------------------
(* Bounds of the exploration *)

\* bytes that may wait in the Stream between two polls
MaxPending == 2
\* free typing is explored in the first MaxWord columns of the line ...
MaxWord == 3
\* ... and in its last NearFull columns before the terminator
NearFull == 1
\* letters a held-down key sends between two polls
RunLen == 16

---------------------------------------------------------------------------
(* Command tables handed to the constructor *)

\* { name, func, max_args, help_text }
CmdHelp(name, func, max_args, help_text) ==
    [name |-> name, func |-> func, max_args |-> max_args,
     help_text |-> help_text]

\* an entry whose help_text is NULL
Cmd(name, func, max_args) == CmdHelp(name, func, max_args, NULLSTR)

\* a (returns, no argument), ab (no handler), b (calls stop, one argument)
TableA ==
    << Cmd(<< ChA >>, "noop", 0),
       Cmd(<< ChA, ChB >>, NULLFUNC, 0),
       Cmd(<< ChB >>, "stop", 1) >>

\* aba, an entry without a name, abb
TableB ==
    << Cmd(<< ChA, ChB, ChA >>, "noop", 0),
       Cmd(NoName, "noop", 0),
       Cmd(<< ChA, ChB, ChB >>, "stop", 0) >>

\* names that reach the end of the line buffer: a^61, b^62 a, b^62 b
TableLong ==
    << Cmd(Rep(ChA, CLI_DEFAULT_MAX_LINE_LEN - 3), "noop", 0),
       Cmd(Rep(ChB, CLI_DEFAULT_MAX_LINE_LEN - 2) \o << ChA >>, "stop", 0),
       Cmd(Rep(ChB, CLI_DEFAULT_MAX_LINE_LEN - 2) \o << ChB >>, "noop", 0) >>

\* a name that fills the line with its trailing space: a^62; and b
TableEdge ==
    << Cmd(Rep(ChA, CLI_DEFAULT_MAX_LINE_LEN - 2), "noop", 0),
       Cmd(<< ChB >>, "noop", 0) >>

CommandTables == {TableA, TableB, TableLong, TableEdge}

---------------------------------------------------------------------------
(* Construction *)

\* malloc(n): a block of n cells of indeterminate content
Malloc(n) == [i \in 1..n |-> Stale]

\* Cells above the terminator are dead: every read of the line stops at
\* _bufferPos or at the NUL stored there, and every append rewrites the
\* cells it moves the terminator over.  They are kept as Stale.
Scrub(buf, pos) == [i \in 1..Len(buf) |-> IF i <= pos + 1 THEN buf[i] ELSE Stale]

\* ArduinoCLI(serialPort, commands, commandCount): the fields after the
\* constructor, malloc having succeeded (ok) or failed.
Constructed(cmds, ok) ==
    LET s0 == Running(FALSE,
                      IF ok THEN Malloc(CLI_DEFAULT_MAX_LINE_LEN) ELSE NULLPTR,
                      0, << >>, FALSE, NUL, FALSE)
        s1 == IF ok THEN s0
              ELSE Emit(s0, << Lit("Error: CLI buffer allocation failed!"),
                               Lit(CRLF) >>)
        s2 == _resetBuffer(s1)
    IN  /\ _commands = cmds
        /\ _isRunning = s2.isRunning
        /\ _lineBuffer = s2.lineBuffer
        /\ _maxLineLen = CLI_DEFAULT_MAX_LINE_LEN
        /\ _bufferPos = s2.bufferPos
        /\ _argv = IF ok THEN Malloc(CLI_DEFAULT_MAX_ARGS + 1) ELSE NULLPTR
        /\ _maxArgs = CLI_DEFAULT_MAX_ARGS + 1
        /\ _prompt = CopyPrompt(CLI_DEFAULT_PROMPT)
        /\ rx = s2.rx
        /\ trace = s2.trace
        /\ overrun = s2.overrun
        /\ lastOp = "new"
        /\ lastEnding = s2.lastEnding
        /\ endedLine = s2.endedLine
        /\ pairSplit = "no"

Init ==
    /\ \E cmds \in CommandTables, ok \in BOOLEAN : Constructed(cmds, ok)
    /\ arg = << >>
    /\ ret = << >>

---------------------------------------------------------------------------
(* The calls of the host sketch, and the bytes the terminal sends *)

Current ==
    Running(_isRunning, _lineBuffer, _bufferPos, rx, overrun, lastEnding,
            endedLine)

\* the fields and the Stream after a call that ends in s
Becomes(s, op) ==
    /\ _isRunning' = s.isRunning
    /\ _lineBuffer' = Scrub(s.lineBuffer, s.bufferPos)
    /\ _bufferPos' = s.bufferPos
    /\ rx' = s.rx
    /\ trace' = s.trace
    /\ overrun' = s.overrun
    /\ lastOp' = op
    /\ lastEnding' = s.lastEnding
    /\ endedLine' = s.endedLine
    /\ UNCHANGED << _commands, _maxLineLen, _argv, _maxArgs, _prompt >>

Start ==
    /\ Becomes(start(Current), "start")
    /\ pairSplit' = "no"
    /\ UNCHANGED << arg, ret >>

Stop ==
    /\ Becomes(stop(Current), "stop")
    /\ pairSplit' = "no"
    /\ UNCHANGED << arg, ret >>

\* the bytes the terminal can send
Bytes == {ChA, ChB, SPACE, BS, DEL, ETX, TAB, CR, LF, BEL}

\* the columns in which free typing is explored
InWindow(col) == col < MaxWord \/ col >= _maxLineLen - 1 - NearFull

\* the bytes that may be received while poll() runs, each one alone; a
\* byte received before the call's first available() is one that waited
\* when the call began
LateBytes == {CR, LF, ChA}

\* at most MaxPending bytes reach one poll, those received while it runs
\* included
LateRoom ==
    IF PollRuns(Current) /\ rx # << >> /\ Len(rx) < MaxPending
    THEN MaxPending - Len(rx)
    ELSE 0

LateArrivals == UNION { [1..n -> LateBytes] : n \in 0..LateRoom }

\* cli.poll(), the Stream receiving the bytes of late while it runs
Poll ==
    \E late \in LateArrivals :
        /\ \A i \in 1..Len(late) :
              isprint(late[i]) => InWindow(_bufferPos + Len(rx) + i - 1)
        /\ Becomes(poll([Current EXCEPT !.late = late]), "poll")
        /\ pairSplit' = IF /\ PollRuns(Current)
                           /\ Len(rx) > 0
                           /\ IsPairedEnding(lastEnding, Head(rx))
                        THEN IF endedLine THEN "line" ELSE "empty"
                        ELSE "no"
        /\ UNCHANGED << arg, ret >>

\* one byte arrives in the Stream
Arrive(c) ==
    /\ Len(rx) < MaxPending
    /\ isprint(c) => InWindow(_bufferPos + Len(rx))
    /\ c \in {BS, DEL} => InWindow(_bufferPos - Len(rx) - 1)
    /\ rx' = Append(rx, c)
    /\ trace' = << >>
    /\ lastOp' = "arrive"
    /\ pairSplit' = "no"
    /\ UNCHANGED << _commands, _isRunning, _lineBuffer, _maxLineLen,
                    _bufferPos, _argv, _maxArgs, _prompt, overrun, lastEnding,
                    endedLine, arg, ret >>

\* a key held down on an empty line, poll after poll: runs of one letter
\* arrive until the line is NearFull columns short of its end
RunToGo == _maxLineLen - 1 - NearFull - _bufferPos

ArriveRun ==
    /\ rx = << >>
    /\ _bufferPos = 0 \/ _bufferPos >= RunLen
    /\ RunToGo > 0
    /\ rx' = Rep(ChA, IF RunToGo < RunLen THEN RunToGo ELSE RunLen)
    /\ trace' = << >>
    /\ lastOp' = "arrive"
    /\ pairSplit' = "no"
    /\ UNCHANGED << _commands, _isRunning, _lineBuffer, _maxLineLen,
                    _bufferPos, _argv, _maxArgs, _prompt, overrun, lastEnding,
                    endedLine, arg, ret >>

Next ==
    \/ Start
    \/ Stop
    \/ Poll
    \/ \E c \in Bytes : Arrive(c)
    \/ ArriveRun

Spec == Init /\ [][Next]_vars

---------------------------------------------------------------------------
(* processInput called by the host with a line of its own *)

\* words that follow the command name on a generated line
MaxArgWords == 10

\* ab (two arguments), aa (calls stop, seven), ba (eight)
LineTable ==
    << Cmd(<< ChA, ChB >>, "noop", 2),
       Cmd(<< ChA, ChA >>, "stop", CLI_DEFAULT_MAX_ARGS - 1),
       Cmd(<< ChB, ChA >>, "noop", CLI_DEFAULT_MAX_ARGS) >>

\* k copies of the byte sequence x
RECURSIVE Times(_, _)
Times(x, k) == IF k = 0 THEN << >> ELSE x \o Times(x, k - 1)

FirstWords ==
    { << ChA >>, << ChA, ChB >>, << ChA, ChA >>, << ChB >>, << ChB, ChA >>,
      << ChB, ChB >> }
Separators == { << SPACE >>, << TAB, SPACE >> }
Margins == { << >>, << SPACE >> }

\* a first word and k one-letter words after it
InputLines ==
    { m \o w \o Times(sep \o << ChB >>, k) \o m :
        m \in Margins, w \in FirstWords, sep \in Separators,
        k \in 0..MaxArgWords }
    \cup { << >>, << SPACE >>, << SPACE, TAB >>, << BEL >> }

InitLine ==
    /\ \E ok \in BOOLEAN : Constructed(LineTable, ok)
    /\ arg = << >>
    /\ ret = << >>

\* cli.processInput(line); arg keeps the line and whether the session was
\* running when it was called
ProcessInput(line) ==
    /\ Becomes(processInput(Current, line), "processInput")
    /\ pairSplit' = "no"
    /\ arg' = [line |-> line, running |-> _isRunning]
    /\ UNCHANGED ret

NextLine ==
    \/ Start
    \/ Stop
    \/ \E line \in InputLines : ProcessInput(line)

SpecLine == InitLine /\ [][NextLine]_vars

---------------------------------------------------------------------------
(* The setters and printHelp called on the constructed object *)

\* the lengths the host asks for: none, the smallest, one more than the
\* block allocated by the constructor
LineLens == {0, 1, CLI_DEFAULT_MAX_LINE_LEN + 1}

\* the argument counts the host asks for: none, the smallest, more than
\* the block allocated by the constructor holds
ArgCounts == {0, 1, 2 * CLI_DEFAULT_MAX_ARGS + 4}

\* '$'
ChDollar == 36

\* the prompts the host asks for: NULL, "", and one of more bytes than
\* _prompt holds
PromptArgs == {NULLSTR, << >>, Rep(ChDollar, CLI_MAX_PROMPT_LEN + 2)}

\* a (returns, no argument, with a help text), an entry without a name,
\* an entry whose name is the empty string "", ab (no handler), b (calls
\* stop, one argument)
TableHelp ==
    << CmdHelp(<< ChA >>, "noop", 0, << ChB, ChA >>),
       Cmd(NoName, "noop", 0),
       Cmd(<< >>, "noop", 0),
       Cmd(<< ChA, ChB >>, NULLFUNC, 0),
       Cmd(<< ChB >>, "stop", 1) >>

\* lines the host hands to processInput itself: a with one argument, and
\* with more arguments than the block allocated by the constructor holds
CfgLines == { << ChA >> \o Times(<< SPACE, ChB >>, k) :
                k \in {1, CLI_DEFAULT_MAX_ARGS + 3} }

\* the host calls the setters, printHelp and processInput between lines:
\* no byte waits in the Stream and none is typed
BetweenLines == rx = << >> /\ _bufferPos = 0

\* a call that leaves the Stream and the line alone
Configured(op) ==
    /\ trace' = << >>
    /\ lastOp' = op
    /\ pairSplit' = "no"
    /\ UNCHANGED << _commands, _isRunning, _lineBuffer, _bufferPos, _argv, rx,
                    overrun, lastEnding, endedLine, arg, ret >>

\* cli.setMaxLineLen(len), followed while the constructor's value is still
\* in force and no byte waits in the Stream
SetMaxLineLen(len) ==
    /\ _maxLineLen = CLI_DEFAULT_MAX_LINE_LEN
    /\ rx = << >>
    /\ _maxLineLen' = setMaxLineLen(len)
    /\ Configured("setMaxLineLen")
    /\ UNCHANGED << _maxArgs, _prompt >>

\* cli.setMaxArgs(num), followed while the constructor's value is still in
\* force
SetMaxArgs(num) ==
    /\ _maxArgs = CLI_DEFAULT_MAX_ARGS + 1
    /\ BetweenLines
    /\ _maxArgs' = setMaxArgs(num)
    /\ Configured("setMaxArgs")
    /\ UNCHANGED << _maxLineLen, _prompt >>

\* cli.setPrompt(prompt), followed while the constructor's value is still
\* in force
SetPrompt(prompt) ==
    /\ _prompt = CopyPrompt(CLI_DEFAULT_PROMPT)
    /\ BetweenLines
    /\ _prompt' = setPrompt(prompt)
    /\ Configured("setPrompt")
    /\ UNCHANGED << _maxLineLen, _maxArgs >>

\* cli.printHelp()
PrintHelp ==
    /\ BetweenLines
    /\ Becomes(printHelp(Current), "printHelp")
    /\ pairSplit' = "no"
    /\ UNCHANGED << arg, ret >>

\* cli.processInput(line) with a line of the host's
ProcessLine(line) ==
    /\ BetweenLines
    /\ Becomes(processInput(Current, line), "processInput")
    /\ pairSplit' = "no"
    /\ UNCHANGED << arg, ret >>

InitCfg ==
    /\ \E ok \in BOOLEAN : Constructed(TableHelp, ok)
    /\ arg = << >>
    /\ ret = << >>

\* A write outside a malloc'ed block is undefined behaviour: what the
\* program does after it is not followed.
NextCfg ==
    \/ ~overrun /\ Start
    \/ ~overrun /\ Stop
    \/ ~overrun /\ Poll
    \/ ~overrun /\ \E c \in Bytes : Arrive(c)
    \/ ~overrun /\ ArriveRun
    \/ ~overrun /\ \E len \in LineLens : SetMaxLineLen(len)
    \/ ~overrun /\ \E num \in ArgCounts : SetMaxArgs(num)
    \/ ~overrun /\ \E prompt \in PromptArgs : SetPrompt(prompt)
    \/ ~overrun /\ PrintHelp
    \/ ~overrun /\ \E line \in CfgLines : ProcessLine(line)

SpecCfg == InitCfg /\ [][NextCfg]_vars

---------------------------------------------------------------------------
(* Bursts: several bytes wait in the Stream when poll is called *)

\* bytes of one burst
MaxBurst == 4

BurstBytes == {ChA, ChB, CR, ETX, TAB}

Bursts == UNION { [1..n -> BurstBytes] : n \in 1..MaxBurst }

\* lines the host hands to processInput itself
BurstLines == { << ChA >>, << ChB >> }

\* a burst arrives right after start(), the line empty and the Stream
\* drained; the line the host last handed to processInput is no longer
\* remembered
ArriveBurst(bytes) ==
    /\ lastOp = "start"
    /\ rx = << >>
    /\ _bufferPos = 0
    /\ rx' = bytes
    /\ trace' = << >>
    /\ lastOp' = "arrive"
    /\ pairSplit' = "no"
    /\ arg' = << >>
    /\ UNCHANGED << _commands, _isRunning, _lineBuffer, _maxLineLen,
                    _bufferPos, _argv, _maxArgs, _prompt, overrun, lastEnding,
                    endedLine, ret >>

InitBurst ==
    /\ \E ok \in BOOLEAN : Constructed(TableA, ok)
    /\ arg = << >>
    /\ ret = << >>

NextBurst ==
    \/ Start
    \/ Stop
    \/ Poll
    \/ \E bytes \in Bursts : ArriveBurst(bytes)
    \/ \E line \in BurstLines : ProcessInput(line)

SpecBurst == InitBurst /\ [][NextBurst]_vars

---------------------------------------------------------------------------
(* _splitLine and _findCommand as functions of their arguments *)

\* bytes of a line handed to _splitLine
MaxLineChars == 5
SplitAlphabet == {ChA, SPACE, TAB, CR, LF, BEL, VT}
SplitLines ==
    UNION { [1..n -> SplitAlphabet] : n \in 0..MaxLineChars }
    \cup { Times(<< ChA, SPACE >>, k) : k \in 0..(MaxArgWords + 1) }
SplitMax == {2, 3, CLI_DEFAULT_MAX_ARGS + 1}

InitSplit ==
    /\ Constructed(LineTable, TRUE)
    /\ arg \in [line : SplitLines, max : SplitMax]
    /\ ret = << >>

Split ==
    /\ ret = << >>
    /\ ret' = << _splitLine(arg.line, arg.max) >>
    /\ lastOp' = "_splitLine"
    /\ UNCHANGED << _commands, _isRunning, _lineBuffer, _maxLineLen,
                    _bufferPos, _argv, _maxArgs, _prompt, rx, trace, overrun,
                    lastEnding, endedLine, pairSplit, arg >>

NextSplit == Split

SpecSplit == InitSplit /\ [][NextSplit]_vars

\* entries of a command table handed to _findCommand
MaxCmds == 3
ResolveNames ==
    { << ChA >>, << ChB >>, << ChA, ChA >>, << ChA, ChB >>, << ChB, ChA >>,
      << ChA, ChB, ChA >>, NoName }
ResolveTokens ==
    { << >>, << ChA >>, << ChB >>, << ChA, ChA >>, << ChA, ChB >>,
      << ChB, ChA >>, << ChB, ChB >>, << ChA, ChB, ChA >>,
      << ChA, ChB, ChB >>, << ChA, ChB, ChA, ChA >> }
ResolveTables ==
    UNION { [1..n -> {Cmd(name, "noop", 0) : name \in ResolveNames}] :
              n \in 1..MaxCmds }

InitResolve ==
    /\ \E cmds \in ResolveTables : Constructed(cmds, TRUE)
    /\ arg \in ResolveTokens
    /\ ret = << >>

Resolve ==
    /\ ret = << >>
    /\ ret' = << _findCommand(_commands, arg) >>
    /\ lastOp' = "_findCommand"
    /\ UNCHANGED << _commands, _isRunning, _lineBuffer, _maxLineLen,
                    _bufferPos, _argv, _maxArgs, _prompt, rx, trace, overrun,
                    lastEnding, endedLine, pairSplit, arg >>

NextResolve == Resolve

SpecResolve == InitResolve /\ [][NextResolve]_vars

---------------------------------------------------------------------------
(* Properties: what `trace` shows *)

KindAt(tr, i) == tr[i][1]
ItemsOf(tr, kind) == {i \in 1..Len(tr) : KindAt(tr, i) = kind}
CountOf(tr, kind) == Cardinality(ItemsOf(tr, kind))

\* the prompt printed: "\r\n" and then the prompt string
PromptsIn(tr) ==
    Cardinality({i \in 2..Len(tr) :
        /\ KindAt(tr, i) = "str" /\ tr[i][2] = _prompt
        /\ KindAt(tr, i - 1) = "lit" /\ tr[i - 1][2] = CRLF})

\* the bell written
BellsIn(tr) ==
    Cardinality({i \in ItemsOf(tr, "chr") : tr[i][2] = BEL})

\* bytes written to the Stream, of any kind
WritesIn(tr) ==
    Cardinality({i \in 1..Len(tr) : KindAt(tr, i) \in {"lit", "str", "chr", "int"}})

\* the bytes read, in order
ReadsOf(tr) ==
    LET r == SelectSeq(tr, LAMBDA it : it[1] = "read")
    IN  [i \in 1..Len(r) |-> r[i][2]]

\* CR and LF, in either order
TerminatorPair(c1, c2) == {c1, c2} = {CR, LF}

Allocated == _lineBuffer # NULLPTR /\ _argv # NULLPTR

---------------------------------------------------------------------------
(* C1 *)

\* C1: with the buffers allocated at their construction-time capacity, in
\* every state between calls of start/stop/poll 0 <= length < capacity,
\* storage[length] is the zero terminator, and no write has gone to an index
\* >= capacity.
LineBufferInvariant ==
    _lineBuffer # NULLPTR =>
        /\ Len(_lineBuffer) = CLI_DEFAULT_MAX_LINE_LEN
        /\ 0 <= _bufferPos
        /\ _bufferPos < Len(_lineBuffer)
        /\ _lineBuffer[_bufferPos + 1] = NUL
        /\ ~overrun

\* the line is full and the poll that filled it was sent one byte more
LineBufferFullAndRefused ==
    /\ lastOp = "poll"
    /\ _bufferPos = CLI_DEFAULT_MAX_LINE_LEN - 1
    /\ \A i \in 1.._bufferPos : isprint(_lineBuffer[i])
    /\ BellsIn(trace) > 0

---------------------------------------------------------------------------
(* C7, C8 *)

\* C7: a non-empty line ended by CR LF or LF CR is handed to processInput
\* exactly once: once when both bytes are read by one poll (the second
\* waiting with the first, or received while the poll runs); and once by
\* the poll that reads the first byte and not again by the next poll, which
\* reads the second.
SingleDispatchPerPair ==
    [][ (lastOp' = "poll" /\ _isRunning /\ _lineBuffer # NULLPTR) =>
          LET rd == ReadsOf(trace')
          IN  /\ (/\ _bufferPos > 0
                  /\ Len(rd) = 2
                  /\ TerminatorPair(rd[1], rd[2]))
                    => CountOf(trace', "line") = 1
              /\ (/\ _bufferPos > 0
                  /\ Len(rd) = 1
                  /\ rd[1] \in {CR, LF})
                    => /\ CountOf(trace', "line") = 1
                       /\ lastEnding' = rd[1]
                       /\ endedLine'
              /\ (/\ Len(rd) = 1
                  /\ endedLine
                  /\ TerminatorPair(lastEnding, rd[1]))
                    => CountOf(trace', "line") = 0 ]_vars

\* a poll has read nothing but the second byte of a pair whose first byte
\* ended a line in the poll before
PairSplitOverTwoPolls ==
    /\ lastOp = "poll"
    /\ pairSplit = "line"
    /\ Len(ReadsOf(trace)) = 1
    /\ CountOf(trace, "line") = 0

\* C8: CR LF (or LF CR) is one newline: one prompt at most is printed for
\* the pair, and the second byte is read and dropped, when one poll reads
\* both bytes and when two consecutive polls read one each.
OnePromptPerPair ==
    /\ (/\ lastOp = "poll"
        /\ Len(ReadsOf(trace)) = 2
        /\ TerminatorPair(ReadsOf(trace)[1], ReadsOf(trace)[2]))
          => PromptsIn(trace) <= 1
    /\ (/\ lastOp = "poll"
        /\ pairSplit # "no"
        /\ Len(ReadsOf(trace)) = 1)
          => PromptsIn(trace) = 0

---------------------------------------------------------------------------
(* C9, C10 *)

\* C9: while the session is stopped, a poll invokes no handler and writes
\* nothing (no diagnostic, no prompt), whatever waits in the Stream; and the
\* session stays stopped until start() is called.
StopIsSticky ==
    [][ ~_isRunning =>
          /\ lastOp' = "poll" => /\ CountOf(trace', "call") = 0
                                 /\ WritesIn(trace') = 0
          /\ lastOp' # "start" => ~_isRunning' ]_vars

\* a poll was made on a session stopped in the middle of a line, bytes
\* waiting; it did nothing
PolledWhileStopped ==
    /\ lastOp = "poll"
    /\ ~_isRunning
    /\ _lineBuffer # NULLPTR
    /\ _bufferPos > 0
    /\ Len(rx) > 0
    /\ trace = << >>

\* C10: when the session is not running (a handler may have called stop in
\* the middle of a poll) or the buffers are not allocated, no byte is read
\* from the Stream and none is echoed or appended to the line.
NoConsumptionWhileStopped ==
    lastOp = "poll" =>
        \A j \in ItemsOf(trace, "read") \cup ItemsOf(trace, "chr") :
            /\ _lineBuffer # NULLPTR
            /\ \A i \in ItemsOf(trace, "stop") : j < i

---------------------------------------------------------------------------
(* Words of a line, and the entries a word names: stated without the
   tokenizer and the resolver *)

WordBreaks == {SPACE, TAB, CR, LF, BEL}

WordStarts(line) ==
    {i \in 1..Len(line) :
        line[i] \notin WordBreaks /\ (i = 1 \/ line[i - 1] \in WordBreaks)}

WordEnds(line) ==
    {i \in 1..Len(line) :
        line[i] \notin WordBreaks
        /\ (i = Len(line) \/ line[i + 1] \in WordBreaks)}

\* the k-th smallest member of a set of numbers
Nth(S, k) == CHOOSE i \in S : Cardinality({j \in S : j < i}) = k - 1

\* the maximal runs of bytes that are not word breaks, left to right
WordsOf(line) ==
    [k \in 1..Cardinality(WordStarts(line)) |->
        SubSeq(line, Nth(WordStarts(line), k), Nth(WordEnds(line), k))]

\* the entries whose name is the word / begins with the word
NamedExactly(word) ==
    {e \in 1..Len(_commands) :
        _commands[e].name # NoName /\ _commands[e].name = word}

NamedFrom(word) ==
    {e \in 1..Len(_commands) :
        /\ _commands[e].name # NoName
        /\ Len(_commands[e].name) >= Len(word)
        /\ \A i \in 1..Len(word) : _commands[e].name[i] = word[i]}

\* the entry the first word of a line resolves to, 0 when none
ResolvedEntry(word) ==
    IF NamedExactly(word) # {} THEN CHOOSE e \in NamedExactly(word) : TRUE
    ELSE IF Cardinality(NamedFrom(word)) = 1
    THEN CHOOSE e \in NamedFrom(word) : TRUE
    ELSE 0

UniqueNames ==
    \A e, f \in 1..Len(_commands) :
        (e # f /\ _commands[e].name # NoName) =>
            _commands[e].name # _commands[f].name

HasLit(tr, text) == \E i \in ItemsOf(tr, "lit") : tr[i][2] = text

\* processInput(line) was called on a running session with its buffers,
\* and the line has a word
LineProcessed ==
    /\ lastOp = "processInput"
    /\ arg.running
    /\ Allocated
    /\ Len(WordsOf(arg.line)) > 0

---------------------------------------------------------------------------
(* C2, C3 *)

\* C2: for a line whose first word resolves to a command with limit m and
\* that has k argument words after it, whatever k is, the handler is called
\* if and only if k <= m; when k > m the too-many-arguments diagnostic is
\* printed and the handler is not called.
ArgCountValidation ==
    LET ws == WordsOf(arg.line)
        e == ResolvedEntry(ws[1])
        k == Len(ws) - 1
        m == _commands[e].max_args
    IN  (LineProcessed /\ e # 0 /\ _commands[e].func # NULLFUNC) =>
            /\ CountOf(trace, "call") = 1 <=> k <= m
            /\ k > m => /\ HasLit(trace, "Error: Too many arguments for '")
                        /\ CountOf(trace, "call") = 0

\* C3: with N = CLI_DEFAULT_MAX_ARGS arguments allowed besides the command
\* name, a line of a command name and exactly N argument words is tokenized
\* in full: the handler of a command whose limit is >= N is called with
\* argc = N + 1 and all the words.
TokenCapacity ==
    LET ws == WordsOf(arg.line)
        e == ResolvedEntry(ws[1])
    IN  (/\ LineProcessed
         /\ e # 0
         /\ _commands[e].func # NULLFUNC
         /\ Len(ws) = CLI_DEFAULT_MAX_ARGS + 1
         /\ _commands[e].max_args >= CLI_DEFAULT_MAX_ARGS) =>
            \E i \in ItemsOf(trace, "call") :
                /\ trace[i][2] = e
                /\ trace[i][3] = CLI_DEFAULT_MAX_ARGS + 1
                /\ trace[i][4] = Append(ws, NULLPTR)

---------------------------------------------------------------------------
(* C4, C5, C6 *)

\* C4: in a table with unique names, resolving the token equal to the full
\* name of an entry e returns e, whichever other entries have names that
\* start with the token.
ExactMatchWins ==
    (ret # << >> /\ UniqueNames) =>
        \A e \in 1..Len(_commands) :
            (_commands[e].name # NoName /\ _commands[e].name = arg) =>
                ret[1] = e

\* the full name of an entry was resolved to it while a longer name of the
\* table starts with it
ExactMatchAmongLongerNames ==
    /\ ret # << >>
    /\ UniqueNames
    /\ ret[1] # 0
    /\ _commands[ret[1]].name = arg
    /\ \E f \in NamedFrom(arg) : Len(_commands[f].name) > Len(arg)

\* C5: for a first token that is no command's name: when exactly one
\* entry's name starts with it, that entry's handler and no other is the
\* one called (once, when the argument count is within its limit) and no
\* unknown/ambiguous diagnostic is printed; when none does, the
\* unknown-command diagnostic is printed; when two or more do, the
\* ambiguous-command diagnostic is printed; in both failures no handler is
\* called.
PrefixResolution ==
    LET ws == WordsOf(arg.line)
        M == NamedFrom(ws[1])
    IN  (LineProcessed /\ NamedExactly(ws[1]) = {}) =>
            /\ Cardinality(M) = 1 =>
                 /\ \A i \in ItemsOf(trace, "call") : trace[i][2] \in M
                 /\ ~HasLit(trace, "Error: Unknown command '")
                 /\ ~HasLit(trace, "Error: Ambiguous command '")
                 /\ \A e \in M :
                      (/\ _commands[e].func # NULLFUNC
                       /\ Len(ws) - 1 <= _commands[e].max_args)
                          => CountOf(trace, "call") = 1
            /\ Cardinality(M) = 0 =>
                 /\ HasLit(trace, "Error: Unknown command '")
                 /\ ~HasLit(trace, "Error: Ambiguous command '")
                 /\ CountOf(trace, "call") = 0
            /\ Cardinality(M) >= 2 =>
                 /\ HasLit(trace, "Error: Ambiguous command '")
                 /\ ~HasLit(trace, "Error: Unknown command '")
                 /\ CountOf(trace, "call") = 0

\* an abbreviation that one name only starts with was typed, with an
\* argument, and that entry's handler was called
AbbreviationDispatched ==
    /\ LineProcessed
    /\ NamedExactly(WordsOf(arg.line)[1]) = {}
    /\ Cardinality(NamedFrom(WordsOf(arg.line)[1])) = 1
    /\ Len(WordsOf(arg.line)) > 1
    /\ \E i \in ItemsOf(trace, "call") :
           trace[i][2] \in NamedFrom(WordsOf(arg.line)[1])

\* C6: for a line of no more words than the token vector holds besides its
\* null sentinel, the tokens returned are the maximal runs of non-delimiter
\* bytes in left-to-right order: none is empty, the count is the number of
\* runs (0 for a line of delimiters only), and argv[count] is the null
\* sentinel.
TokenizerResult ==
    ret # << >> =>
        LET ws == WordsOf(arg.line)
        IN  Len(ws) <= arg.max - 1 =>
                /\ ret[1].argc = Len(ws)
                /\ Len(ret[1].argv) = ret[1].argc + 1
                /\ \A i \in 1..ret[1].argc :
                       ret[1].argv[i] = ws[i] /\ Len(ret[1].argv[i]) > 0
                /\ ret[1].argv[ret[1].argc + 1] = NULLPTR

\* a line with delimiters before, between and after its two words was split
SplitAmongDelimiters ==
    /\ ret # << >>
    /\ ret[1].argc = 2
    /\ Len(arg.line) > 0
    /\ arg.line[1] \in WordBreaks
    /\ arg.line[Len(arg.line)] \in WordBreaks
    /\ arg.max > 2

---------------------------------------------------------------------------
(* One byte read by one poll *)

\* the bytes of the line, without its terminator
TypedOf(buf, pos) == SubSeq(buf, 1, pos)

\* this step is a poll of a running session that reads the bytes cs and
\* no other
PollOfBytes(cs) ==
    /\ lastOp' = "poll"
    /\ _isRunning
    /\ _lineBuffer # NULLPTR
    /\ ReadsOf(trace') = cs

\* this step is a poll of a running session that reads the one byte c
PollOfByte(c) == PollOfBytes(<< c >>)

LineUnchanged == _lineBuffer' = _lineBuffer /\ _bufferPos' = _bufferPos

---------------------------------------------------------------------------
(* C11, C12, C13 *)

\* C11: a printable byte is appended to the line and echoed if and only if
\* length < capacity - 1 before it; with capacity - 1 bytes in the line it
\* leaves content and length unchanged, is not echoed, and one bell is
\* written.
OverflowRejection ==
    [][ \A c \in Bytes :
          (PollOfByte(c) /\ isprint(c)) =>
             IF _bufferPos < Len(_lineBuffer) - 1
             THEN /\ _bufferPos' = _bufferPos + 1
                  /\ TypedOf(_lineBuffer', _bufferPos')
                        = Append(TypedOf(_lineBuffer, _bufferPos), c)
                  /\ _lineBuffer'[_bufferPos' + 1] = NUL
                  /\ trace' = << Rd(c), Chr(c) >>
             ELSE /\ LineUnchanged
                  /\ trace' = << Rd(c), Chr(BEL) >> ]_vars

\* one printable byte was sent to a full line and refused
PrintableRefused ==
    /\ lastOp = "poll"
    /\ _bufferPos = CLI_DEFAULT_MAX_LINE_LEN - 1
    /\ Len(trace) = 2
    /\ trace[1][1] = "read" /\ isprint(trace[1][2])
    /\ trace[2] = Chr(BEL)

\* C12: backspace or DEL with length 0 changes neither the line nor the
\* length and writes nothing; with length n > 0 the length becomes n - 1,
\* the first n - 1 bytes are unchanged, the terminator follows them, and
\* the 3-byte erase sequence and nothing else is written.
BackspaceErasesOne ==
    [][ \A c \in {BS, DEL} :
          PollOfByte(c) =>
             IF _bufferPos = 0
             THEN /\ LineUnchanged
                  /\ trace' = << Rd(c) >>
             ELSE /\ _bufferPos' = _bufferPos - 1
                  /\ TypedOf(_lineBuffer', _bufferPos')
                        = SubSeq(_lineBuffer, 1, _bufferPos - 1)
                  /\ _lineBuffer'[_bufferPos' + 1] = NUL
                  /\ trace' = << Rd(c), Str(<< BS, SPACE, BS >>) >> ]_vars

\* the only byte of a line was erased
ErasedToEmpty ==
    /\ lastOp = "poll"
    /\ _bufferPos = 0
    /\ \E c \in {BS, DEL} : trace = << Rd(c), Str(<< BS, SPACE, BS >>) >>

\* C13: Ctrl-C in any state of the line resets the length to 0, prints the
\* cancel marker and the prompt, and calls no handler; a line terminator
\* right behind it dispatches nothing, and bytes typed after it start the
\* line anew.
CancelDiscards ==
    [][ /\ PollOfByte(ETX) =>
             /\ _bufferPos' = 0
             /\ _lineBuffer'[1] = NUL
             /\ trace' = << Rd(ETX), Lit("^C"), Lit("\r\n"),
                            Lit("\r\n"), Str(_prompt) >>
        /\ \A c \in Bytes :
             PollOfBytes(<< ETX, c >>) =>
                 /\ CountOf(trace', "call") = 0
                 /\ CountOf(trace', "line") = 0
                 /\ isprint(c) =>
                      TypedOf(_lineBuffer', _bufferPos') = << c >>
        /\ \A c \in Bytes :
             PollOfBytes(<< c, ETX >>) =>
                 /\ _bufferPos' = 0
                 /\ _lineBuffer'[1] = NUL
                 /\ IsLineEnding(c) \/ CountOf(trace', "line") = 0 ]_vars

\* a byte was typed and cancelled
CancelledTypedLine ==
    /\ lastOp = "poll"
    /\ _bufferPos = 0
    /\ \E c \in Bytes :
          trace = << Rd(c), Chr(c), Rd(ETX), Lit("^C"), Lit("\r\n"),
                     Lit("\r\n"), Str(_prompt) >>

---------------------------------------------------------------------------
(* C14 *)

\* the line is one word without a space
IsFirstWord(w) == Len(w) > 0 /\ \A i \in 1..Len(w) : w[i] # SPACE

\* the name of the only entry whose name starts with w
OnlyNameFrom(w) == _commands[CHOOSE e \in NamedFrom(w) : TRUE].name

\* C14: when the line is a space-free non-empty word w and exactly one
\* command name n starts with w, Tab makes the line n and one space and
\* echoes the suffix and the space whenever they fit (|n| + 1 <=
\* capacity - 1); only when they do not fit does Tab write a bell and leave
\* line and length unchanged.
SingleMatchCompletion ==
    [][ PollOfByte(TAB) =>
          LET w == TypedOf(_lineBuffer, _bufferPos)
              n == OnlyNameFrom(w)
          IN  (IsFirstWord(w) /\ Cardinality(NamedFrom(w)) = 1) =>
                 IF Len(n) + 1 <= Len(_lineBuffer) - 1
                 THEN /\ _bufferPos' = Len(n) + 1
                      /\ TypedOf(_lineBuffer', _bufferPos')
                            = Append(n, SPACE)
                      /\ _lineBuffer'[_bufferPos' + 1] = NUL
                      /\ trace' = << Rd(TAB),
                                     Str(SubSeq(n, Len(w) + 1, Len(n))),
                                     Chr(SPACE) >>
                 ELSE /\ LineUnchanged
                      /\ trace' = << Rd(TAB), Chr(BEL) >> ]_vars

---------------------------------------------------------------------------
(* C15, C16 *)

\* the names that start with w, in table order
NamesFrom(w) ==
    LET idx == NamedFrom(w)
    IN  [k \in 1..Cardinality(idx) |-> _commands[Nth(idx, k)].name]

\* the longest common prefix of a set of entries' names
CommonPrefixOf(idx) ==
    LET first == _commands[CHOOSE e \in idx : TRUE].name
        agree == {k \in 0..Len(first) :
                    \A e \in idx :
                       /\ Len(_commands[e].name) >= k
                       /\ SubSeq(_commands[e].name, 1, k) = SubSeq(first, 1, k)}
    IN  SubSeq(first, 1, CHOOSE k \in agree : \A j \in agree : j <= k)

\* C15: when two or more command names start with the current word and
\* their longest common prefix is longer than the word, Tab appends the
\* suffix of that prefix to the line (no trailing space) and the bytes it
\* echoes are the bytes it appended; without room it writes a bell and
\* leaves the line unchanged.
LcpCompletion ==
    [][ PollOfByte(TAB) =>
          LET w == TypedOf(_lineBuffer, _bufferPos)
              lcp == CommonPrefixOf(NamedFrom(w))
          IN  (/\ IsFirstWord(w)
               /\ Cardinality(NamedFrom(w)) >= 2
               /\ Len(lcp) > Len(w)) =>
                 IF Len(lcp) <= Len(_lineBuffer) - 1
                 THEN /\ _bufferPos' = Len(lcp)
                      /\ TypedOf(_lineBuffer', _bufferPos') = lcp
                      /\ _lineBuffer'[_bufferPos' + 1] = NUL
                      /\ trace' = << Rd(TAB),
                                     Str(SubSeq(lcp, Len(w) + 1, Len(lcp))) >>
                 ELSE /\ LineUnchanged
                      /\ trace' = << Rd(TAB), Chr(BEL) >> ]_vars

\* C16: when two or more command names start with the current word and
\* their longest common prefix is as long as the word, Tab leaves line and
\* length unchanged and prints a newline, the matching names and no other
\* in table order, then the prompt and the line as it is.
OptionListing ==
    [][ PollOfByte(TAB) =>
          LET w == TypedOf(_lineBuffer, _bufferPos)
              names == NamesFrom(w)
          IN  (/\ IsFirstWord(w)
               /\ Cardinality(NamedFrom(w)) >= 2
               /\ Len(CommonPrefixOf(NamedFrom(w))) = Len(w)) =>
                 /\ LineUnchanged
                 /\ Len(trace') = 2 * Len(names) + 5
                 /\ trace'[1] = Rd(TAB)
                 /\ trace'[2] = Lit("\r\n")
                 /\ \A k \in 1..Len(names) :
                       /\ trace'[2 * k + 1] = Str(names[k])
                       /\ trace'[2 * k + 2][1] = "lit"
                 /\ trace'[2 * Len(names) + 3] = Lit("\r\n")
                 /\ trace'[2 * Len(names) + 4] = Str(_prompt)
                 /\ trace'[2 * Len(names) + 5] = Str(w) ]_vars

\* the options for a word were listed and the word printed again
OptionsListed ==
    /\ lastOp = "poll"
    /\ _bufferPos > 0
    /\ Len(trace) >= 9
    /\ trace[1] = Rd(TAB)
    /\ trace[2] = Lit("\r\n")
    /\ trace[Len(trace)] = Str(TypedOf(_lineBuffer, _bufferPos))
    /\ trace[Len(trace) - 1] = Str(_prompt)

---------------------------------------------------------------------------
(* C17 *)

\* C17: setMaxLineLen(n) called after the line buffer was allocated changes
\* nothing: the capacity enforced on appended bytes stays the allocated one,
\* so whatever n and the bytes that follow, the length stays below the size
\* of the allocated storage and nothing is written outside it.  (Stated
\* for the objects setMaxArgs has not been called on: their token vector
\* is never written past its end.)
ConfigurationInert ==
    (_lineBuffer # NULLPTR /\ _maxArgs = CLI_DEFAULT_MAX_ARGS + 1) =>
        /\ _bufferPos < Len(_lineBuffer)
        /\ ~overrun

---------------------------------------------------------------------------
(* C18 *)

\* the places of `trace` where a diagnostic starts or a handler is called
OutputStarts(tr) ==
    {i \in 1..Len(tr) :
        \/ tr[i][1] = "call"
        \/ /\ tr[i][1] = "lit"
           /\ tr[i][2] \in {"Error: Unknown command '",
                            "Error: Ambiguous command '",
                            "Error: Too many arguments for '"}}

WhitespaceOnly(line) ==
    \A i \in 1..Len(line) : line[i] \in {SPACE, TAB, LF, VT, FF, CR}

\* C18: for a line that leads to an unknown-command, ambiguous-command or
\* too-many-arguments diagnostic or to a handler call, a newline is the
\* first thing written, before the diagnostic or the call; an empty or
\* whitespace-only line writes nothing.
BlankLineBeforeOutput ==
    (lastOp = "processInput" /\ arg.running /\ Allocated) =>
        /\ OutputStarts(trace) # {} =>
              /\ trace[1] = Lit("\r\n")
              /\ \A i \in OutputStarts(trace) : i >= 2
        /\ WhitespaceOnly(arg.line) => trace = << >>
        /\ trace # << >> => OutputStarts(trace) # {}

\* a line with too many arguments was refused, the diagnostic behind a
\* newline
TooManyRefusedAfterBlankLine ==
    /\ lastOp = "processInput"
    /\ Len(trace) > 2
    /\ trace[1] = Lit("\r\n")
    /\ trace[2] = Lit("Error: Too many arguments for '")

---------------------------------------------------------------------------
(* C19 *)

\* C19: when the line has a space anywhere (the one a single-match
\* completion left at its end included), Tab leaves line and length
\* unchanged and writes a bell and nothing else; when the line is empty,
\* Tab changes nothing and writes nothing.
CompletionOnlyInFirstWord ==
    [][ PollOfByte(TAB) =>
          LET w == TypedOf(_lineBuffer, _bufferPos)
          IN  /\ (\E i \in 1..Len(w) : w[i] = SPACE) =>
                    /\ LineUnchanged
                    /\ trace' = << Rd(TAB), Chr(BEL) >>
              /\ w = << >> =>
                    /\ LineUnchanged
                    /\ trace' = << Rd(TAB) >> ]_vars

\* Tab was refused on a line that is a command name and the space behind it
TabRefusedBehindName ==
    /\ lastOp = "poll"
    /\ trace = << Rd(TAB), Chr(BEL) >>
    /\ _bufferPos > 1
    /\ _lineBuffer[_bufferPos] = SPACE
    /\ NamedExactly(TypedOf(_lineBuffer, _bufferPos - 1)) # {}

---------------------------------------------------------------------------
(* C20 *)

\* a poll read Tab, which completed the word to a single match, and the
\* line terminator right behind it
CompletedAndEntered ==
    /\ lastOp = "poll"
    /\ Len(trace) >= 5
    /\ trace[1] = Rd(TAB)
    /\ trace[2][1] = "str"
    /\ trace[3] = Chr(SPACE)
    /\ trace[4] \in {Rd(CR), Rd(LF)}
    /\ trace[5][1] = "line"

\* C20: when Tab completes the word w to the command name n and a line
\* terminator follows at once, the entry named n and no other is
\* dispatched, with no user argument (argc = 1), and it is the entry
\* _findCommand returns for w when w is not the full name of another entry.
CompletionAgreesWithResolution ==
    CompletedAndEntered =>
        LET l == trace[5][2]
            n == SubSeq(l, 1, Len(l) - 1)
            w == SubSeq(n, 1, Len(n) - Len(trace[2][2]))
        IN  /\ l = Append(n, SPACE)
            /\ Cardinality(NamedExactly(n)) = 1
            /\ \A e \in NamedExactly(n) :
                  /\ \A i \in ItemsOf(trace, "call") :
                        trace[i] = Call(e, 1, << n, NULLPTR >>)
                  /\ CountOf(trace, "call")
                        = IF _commands[e].func # NULLFUNC THEN 1 ELSE 0
                  /\ \A i \in OutputStarts(trace) : trace[i][1] = "call"
                  /\ NamedExactly(w) \subseteq {e} =>
                        _findCommand(_commands, w) = e

\* an abbreviation was completed by Tab and entered, and the handler of
\* the completed name was called
AbbreviationCompletedAndRun ==
    /\ CompletedAndEntered
    /\ Len(trace[2][2]) > 0
    /\ CountOf(trace, "call") = 1

---------------------------------------------------------------------------
(* C21 *)

\* the items of an option listing of the names and the line
ListingOf(names, line) ==
    << Lit("\r\n") >>
    \o [k \in 1..(2 * Len(names)) |->
           IF k % 2 = 1 THEN Str(names[(k + 1) \div 2]) ELSE Lit("  ")]
    \o << Lit("\r\n"), Str(_prompt), Str(line) >>

\* C21: after Tab has extended the line to the longest common prefix of
\* two or more candidates, the names that start with the new line are the
\* names that started with the old one, and a second Tab right behind the
\* first lists exactly those and leaves the line as the first Tab made it.
LcpExtensionStable ==
    [][ PollOfBytes(<< TAB, TAB >>) =>
          LET w == TypedOf(_lineBuffer, _bufferPos)
              lcp == CommonPrefixOf(NamedFrom(w))
          IN  (/\ IsFirstWord(w)
               /\ Cardinality(NamedFrom(w)) >= 2
               /\ Len(lcp) > Len(w)
               /\ Len(trace') >= 2
               /\ trace'[2][1] = "str") =>
                 /\ NamedFrom(lcp) = NamedFrom(w)
                 /\ _bufferPos' = Len(lcp)
                 /\ TypedOf(_lineBuffer', _bufferPos') = lcp
                 /\ _lineBuffer'[_bufferPos' + 1] = NUL
                 /\ SubSeq(trace', 3, Len(trace'))
                       = << Rd(TAB) >> \o ListingOf(NamesFrom(w), lcp) ]_vars

\* Tab extended the line and the Tab behind it listed the candidates
ExtendedThenListed ==
    /\ lastOp = "poll"
    /\ Len(trace) >= 9
    /\ trace[1] = Rd(TAB)
    /\ trace[2][1] = "str"
    /\ trace[3] = Rd(TAB)
    /\ trace[4] = Lit("\r\n")
    /\ trace[Len(trace)] = Str(TypedOf(_lineBuffer, _bufferPos))

---------------------------------------------------------------------------
(* C22, C23 *)

\* the places of `trace` where the prompt is written
PromptStarts(tr) ==
    {i \in 2..Len(tr) : tr[i] = Str(_prompt) /\ tr[i - 1] = Lit("\r\n")}

\* C22: a handler is called only while the session is running at that
\* moment: not by processInput(line) called by the host while stopped, not
\* for a line completed in the rest of a poll in which an earlier handler
\* called stop().
HandlersOnlyWhileRunning ==
    [][ \A i \in ItemsOf(trace', "call") :
          /\ _isRunning
          /\ \A j \in ItemsOf(trace', "stop") : i < j ]_vars

\* a handler called stop(), and the same poll completed another line
\* behind it
LineCompletedAfterStop ==
    /\ lastOp = "poll"
    /\ \E j \in ItemsOf(trace, "stop") :
          \E i \in ItemsOf(trace, "line") : i > j

\* C23: the prompt is written only while the session is running: once a
\* handler has called stop() during a poll, no byte of the rest of that
\* poll (terminator, Ctrl-C, Tab listing) has a prompt printed.
PromptOnlyWhileRunning ==
    [][ \A i \in PromptStarts(trace') :
          /\ _isRunning \/ lastOp' = "start"
          /\ \A j \in ItemsOf(trace', "stop") : i < j ]_vars

=============================================================================
